---------------------------- MODULE Spec2Model ----------------------------
(***************************************************************************)
(* The sign-in page (src/page/auth/Sign-in.tsx): the form record, its      *)
(* validation schema, the login mutation and its two callbacks, and the    *)
(* rendered submit button.                                                 *)
(*                                                                         *)
(* Text (field values, the returnUrl parameter, navigation targets) is a   *)
(* sequence of one-character strings, so that trimming, the address        *)
(* syntax, percent-decoding and the route template are computed.           *)
(* Notification texts and field-error texts are passed through unchanged   *)
(* by the code and are kept as plain strings.                              *)
(***************************************************************************)
EXTENDS Naturals, Sequences, FiniteSets

(* Number of submit events considered in one run of the page. *)
MaxSubmits == 2

---------------------------------------------------------------------------
(* Optional values: null is the empty sequence, a present value x is <<x>>. *)
Null == <<>>
Some(x) == <<x>>

---------------------------------------------------------------------------
(* Text helpers *)

Alpha == {"a", "b", "c", "o", "p", "w", "F"}
Digits == {"0", "1", "2", "5"}
Letters == Alpha \cup Digits
Space == " "

RECURSIVE TrimStart(_)
TrimStart(s) ==
    IF s # <<>> /\ Head(s) = Space THEN TrimStart(Tail(s)) ELSE s

RECURSIVE TrimEnd(_)
TrimEnd(s) ==
    IF s # <<>> /\ s[Len(s)] = Space
        THEN TrimEnd(SubSeq(s, 1, Len(s) - 1))
        ELSE s

(* String.prototype.trim as applied by z.string().trim() *)
Trim(s) == TrimEnd(TrimStart(s))

(* Positions of character c in s *)
Positions(s, c) == {i \in 1..Len(s) : s[i] = c}

(* No label between dots is empty: no leading dot, no trailing dot, no ".." *)
NoEmptyLabel(s) ==
    /\ s # <<>>
    /\ s[1] # "."
    /\ s[Len(s)] # "."
    /\ \A i \in 1..(Len(s) - 1) : ~(s[i] = "." /\ s[i + 1] = ".")

(* The local part: [A-Z0-9_'+\-\.]*[A-Z0-9_+-], not starting with a dot and *)
(* without two dots in a row.                                              *)
IsLocalPart(s) ==
    /\ NoEmptyLabel(s)
    /\ \A i \in 1..Len(s) : s[i] \in Letters \cup {"."}

(* The domain: ([A-Z0-9][A-Z0-9\-]*\.)+[A-Z]{2,} *)
IsDomain(s) ==
    /\ NoEmptyLabel(s)
    /\ \A i \in 1..Len(s) : s[i] \in Letters \cup {"."}
    /\ Positions(s, ".") # {}
    /\ LET last == CHOOSE i \in Positions(s, ".") : \A j \in Positions(s, ".") : j <= i
       IN  /\ Len(s) - last >= 2
           /\ \A i \in (last + 1)..Len(s) : s[i] \in Alpha

(* The address syntax checked by z.string().email() *)
IsEmail(s) ==
    /\ Cardinality(Positions(s, "@")) = 1
    /\ LET at == CHOOSE i \in Positions(s, "@") : TRUE
       IN  /\ IsLocalPart(SubSeq(s, 1, at - 1))
           /\ IsDomain(SubSeq(s, at + 1, Len(s)))

---------------------------------------------------------------------------
(* formSchema (lines 38-45) *)

EmailInvalidMsg == "Invalid email address"
EmailRequiredMsg == "Workspace name is required"
PasswordRequiredMsg == "Password is required"

(* The email rule with the address check left out *)
EmailErrorMinOnly(e) ==
    IF Len(Trim(e)) < 1 THEN Some(EmailRequiredMsg) ELSE Null

(* email: z.string().trim().email(..).min(1, ..); the resolver reports the *)
(* first failing check of a field.                                         *)
EmailError(e) ==
    IF ~IsEmail(Trim(e)) THEN Some(EmailInvalidMsg)
    ELSE IF Len(Trim(e)) < 1 THEN Some(EmailRequiredMsg)
    ELSE Null

(* The password rule with the trim left out *)
PasswordErrorNoTrim(p) ==
    IF Len(p) < 1 THEN Some(PasswordRequiredMsg) ELSE Null

(* password: z.string().trim().min(1, ..) *)
PasswordError(p) ==
    IF Len(Trim(p)) < 1 THEN Some(PasswordRequiredMsg) ELSE Null

(* The result of parsing the form record against the schema: the per-field *)
(* errors, and the parsed (trimmed) values handed to onSubmit.             *)
formSchema(e, p) ==
    [errors |-> [email |-> EmailError(e), password |-> PasswordError(p)],
     values |-> [email |-> Trim(e), password |-> Trim(p)]]

NoErrors == [email |-> Null, password |-> Null]

---------------------------------------------------------------------------
(* decodeURIComponent (line 62) *)

HexDigits == {"0", "1", "2", "5", "F"}

(* The character of an escaped octet below 0x80 *)
AsciiOf(h, l) ==
    CASE h = "2" /\ l = "F" -> "/"
      [] h = "2" /\ l = "5" -> "%"
      [] h = "2" /\ l = "0" -> " "
      [] OTHER -> "?"

(* decodeURIComponent: every %XX is replaced by the character it encodes;  *)
(* a "%" not followed by two hex digits, or an octet that is not the start *)
(* of a well-formed UTF-8 sequence, throws URIError (ok = FALSE).          *)
RECURSIVE decodeURIComponent(_)
decodeURIComponent(s) ==
    IF s = <<>> THEN [ok |-> TRUE, value |-> <<>>]
    ELSE IF Head(s) # "%" THEN
        LET rest == decodeURIComponent(Tail(s))
        IN  [ok |-> rest.ok,
             value |-> IF rest.ok THEN <<Head(s)>> \o rest.value ELSE <<>>]
    ELSE IF Len(s) < 3 \/ s[2] \notin HexDigits \/ s[3] \notin HexDigits
        THEN [ok |-> FALSE, value |-> <<>>]
    ELSE IF s[2] \notin {"0", "1", "2", "5"}
        THEN [ok |-> FALSE, value |-> <<>>]
    ELSE
        LET rest == decodeURIComponent(SubSeq(s, 4, Len(s)))
        IN  [ok |-> rest.ok,
             value |-> IF rest.ok THEN <<AsciiOf(s[2], s[3])>> \o rest.value
                                  ELSE <<>>]

URIErrorMsg == "URI malformed"

(* The route template with its last slash left out *)
WorkspaceRouteNoSlash(w) ==
    <<"/", "w", "o", "r", "k", "s", "p", "a", "c", "e">> \o w

(* `/workspace/${user.currentWorkspace}` (line 63) *)
WorkspacePrefix == <<"/", "w", "o", "r", "k", "s", "p", "a", "c", "e", "/">>
WorkspaceRoute(w) == WorkspacePrefix \o w

---------------------------------------------------------------------------
(* Inputs *)

Emails ==
    { <<>>,
      <<" ">>,
      <<" ", "a", "@", "b", ".", "c", "o", " ">>,
      <<"a", "@", "b", ".", "c">>,
      <<"a", "b", ".", "c", "o">> }

Passwords ==
    { <<>>,
      <<" ">>,
      <<" ", "p", " ">> }

(* Values of searchParams.get("returnUrl"): absent, empty, plain, escaped, *)
(* escaped twice, and three that are not well-formed escapes.              *)
ReturnUrls ==
    { Null,
      Some(<<>>),
      Some(<<"/", "p", "5">>),
      Some(<<"%", "2", "F", "p", "5">>),
      Some(<<"%", "2", "5", "2", "F">>),
      Some(<<"%">>),
      Some(<<"/", "%", "2">>),
      Some(<<"%", "F", "F">>) }

(* user.currentWorkspace of a successful response *)
Workspaces == { <<"w", "1">>, <<"w", "2">> }

(* error.message of a rejected request: credential, network, server *)
Messages == { "Invalid credentials", "Network Error", "Internal Server Error" }

---------------------------------------------------------------------------
(* State *)

VARIABLES
    returnUrl,     \* searchParams.get("returnUrl") (line 32)
    email,         \* the email input's value
    password,      \* the password input's value
    errors,        \* the form's per-field errors shown by FormMessage
    submitCount,   \* submit events handled by form.handleSubmit
    status,        \* the mutation observer's status
    current,       \* index in requests of the mutation the observer follows, 0 if none
    requests,      \* the login requests issued, in order
    isPending,     \* isPending as destructured by the last render (line 34)
    disabled,      \* the Login button's disabled attribute (line 159)
    spinner,       \* whether the Loader is shown in the button (line 163)
    navigations,   \* the targets navigate() was called with
    toasts         \* the notifications toast() was called with

vars == <<returnUrl, email, password, errors, submitCount, status, current,
          requests, isPending, disabled, spinner, navigations, toasts>>

form == <<email, password, errors, submitCount>>
mutation == <<status, current, requests>>
view == <<isPending, disabled, spinner>>
effects == <<navigations, toasts>>

(* The login requests that have been sent and not yet answered *)
InFlight == {i \in 1..Len(requests) : requests[i].st = "pending"}

Init ==
    /\ returnUrl \in ReturnUrls
    /\ email = <<>>
    /\ password = <<>>
    /\ errors = NoErrors
    /\ submitCount = 0
    /\ status = "idle"
    /\ current = 0
    /\ requests = <<>>
    /\ isPending = FALSE
    /\ disabled = FALSE
    /\ spinner = FALSE
    /\ navigations = <<>>
    /\ toasts = <<>>

---------------------------------------------------------------------------
(* Rendering *)

(* useMutation's isPending (line 34) *)
IsPendingOf(st) == st = "pending"

(* A button that is never disabled *)
ButtonNeverDisabled(p) == FALSE

(* disabled={isPending} (line 159) *)
ButtonDisabled(p) == p

(* {isPending && <Loader/>} (line 163) *)
ShowsLoader(p) == p

(* The component function runs again after the mutation's state changed:   *)
(* isPending is read anew, and the button is drawn from it.                *)
Render ==
    /\ isPending # IsPendingOf(status)
    /\ isPending' = IsPendingOf(status)
    /\ disabled' = ButtonDisabled(IsPendingOf(status))
    /\ spinner' = ShowsLoader(IsPendingOf(status))
    /\ UNCHANGED <<returnUrl, form, mutation, effects>>

---------------------------------------------------------------------------
(* Typing into the fields ({...field}, lines 119 and 149). Once the form   *)
(* has been submitted, a change re-validates the changed field.            *)

ChangeEmail(e) ==
    /\ e # email
    /\ email' = e
    /\ errors' = IF submitCount > 0
                    THEN [errors EXCEPT !.email = formSchema(e, password).errors.email]
                    ELSE errors
    /\ UNCHANGED <<returnUrl, password, submitCount, mutation, view, effects>>

ChangePassword(p) ==
    /\ p # password
    /\ password' = p
    /\ errors' = IF submitCount > 0
                    THEN [errors EXCEPT !.password = formSchema(email, p).errors.password]
                    ELSE errors
    /\ UNCHANGED <<returnUrl, email, submitCount, mutation, view, effects>>

---------------------------------------------------------------------------
(* Submitting *)

(* A guard that stays set once any request has been made *)
BusyAfterFirstRequest == status # "idle"

(* The guard of onSubmit (line 56), on the isPending of the render that    *)
(* created this onSubmit.                                                  *)
Busy == isPending

(* mutate(values, {onSuccess, onError}) (line 58): a new mutation is built *)
(* and executed, and the observer follows it instead of the previous one.  *)
NewRequest(values) ==
    [email |-> values.email, password |-> values.password,
     st |-> "pending", data |-> Null, error |-> Null,
     succeeded |-> 0, failed |-> 0]

(* onSubmit (lines 55-73) *)
onSubmit(values) ==
    IF Busy
        THEN UNCHANGED mutation
        ELSE /\ requests' = Append(requests, NewRequest(values))
             /\ current' = Len(requests) + 1
             /\ status' = "pending"

(* A submit event on the form: form.handleSubmit(onSubmit) (line 95)       *)
(* validates the record, and calls onSubmit with the parsed values only if *)
(* no field failed.                                                        *)
Submit ==
    /\ submitCount < MaxSubmits
    /\ submitCount' = submitCount + 1
    /\ LET parsed == formSchema(email, password)
       IN  /\ errors' = parsed.errors
           /\ IF parsed.errors = NoErrors
                 THEN onSubmit(parsed.values)
                 ELSE UNCHANGED mutation
    /\ UNCHANGED <<returnUrl, email, password, view, effects>>

---------------------------------------------------------------------------
(* The callbacks given to mutate *)

(* A value that an `x ? .. : ..` or `x || ..` takes as true: neither null  *)
(* nor the empty string.                                                   *)
Truthy(opt) == opt # Null /\ opt[1] # <<>>

(* toast({title, description: error?.message, variant}) (lines 66-70) *)
onError(message) ==
    [title |-> "Error", description |-> message, variant |-> "destructive"]

(* onSuccess (lines 59-64): whether it throws, and otherwise the target it *)
(* passes to navigate.                                                     *)
onSuccess(w) ==
    IF Truthy(returnUrl)
        THEN LET decoded == decodeURIComponent(returnUrl[1])
             IN  IF ~decoded.ok
                    THEN [threw |-> TRUE, target |-> <<>>]
                    ELSE [threw |-> FALSE,
                          target |-> IF decoded.value # <<>>
                                        THEN decoded.value
                                        ELSE WorkspaceRoute(w)]
        ELSE [threw |-> FALSE, target |-> WorkspaceRoute(w)]

---------------------------------------------------------------------------
(* Answers of the backend *)

(* Request i is answered with a user record whose currentWorkspace is w.   *)
(* The callbacks run only for the mutation the observer follows. An        *)
(* exception thrown by onSuccess is raised inside the mutation's           *)
(* execution: depending on the query library's version it is either        *)
(* reported as unhandled, or caught by the mutation, which then takes its  *)
(* error path and calls onError with it (errorPath).                       *)
Fulfil(i, w, errorPath) ==
    /\ requests[i].st = "pending"
    /\ IF i # current
          THEN /\ requests' = [requests EXCEPT ![i].st = "fulfilled",
                                               ![i].data = Some(w)]
               /\ UNCHANGED <<status, effects>>
          ELSE LET result == onSuccess(w)
               IN  IF ~result.threw
                      THEN /\ requests' = [requests EXCEPT
                                  ![i].st = "fulfilled", ![i].data = Some(w),
                                  ![i].succeeded = @ + 1]
                           /\ status' = "success"
                           /\ navigations' = Append(navigations, result.target)
                           /\ UNCHANGED toasts
                      ELSE IF errorPath
                      THEN /\ requests' = [requests EXCEPT
                                  ![i].st = "fulfilled", ![i].data = Some(w),
                                  ![i].succeeded = @ + 1, ![i].failed = @ + 1]
                           /\ status' = "error"
                           /\ toasts' = Append(toasts, onError(URIErrorMsg))
                           /\ UNCHANGED navigations
                      ELSE /\ requests' = [requests EXCEPT
                                  ![i].st = "fulfilled", ![i].data = Some(w),
                                  ![i].succeeded = @ + 1]
                           /\ status' = "success"
                           /\ UNCHANGED effects
    /\ UNCHANGED <<returnUrl, form, current, view>>

(* Request i is rejected with an error whose message is m. *)
Reject(i, m) ==
    /\ requests[i].st = "pending"
    /\ IF i # current
          THEN /\ requests' = [requests EXCEPT ![i].st = "rejected",
                                               ![i].error = Some(m)]
               /\ UNCHANGED <<status, effects>>
          ELSE /\ requests' = [requests EXCEPT
                      ![i].st = "rejected", ![i].error = Some(m),
                      ![i].failed = @ + 1]
               /\ status' = "error"
               /\ toasts' = Append(toasts, onError(m))
               /\ UNCHANGED navigations
    /\ UNCHANGED <<returnUrl, form, current, view>>

---------------------------------------------------------------------------
Next ==
    \/ Render
    \/ \E e \in Emails : ChangeEmail(e)
    \/ \E p \in Passwords : ChangePassword(p)
    \/ Submit
    \/ \E i \in 1..Len(requests), w \in Workspaces, errorPath \in BOOLEAN :
          Fulfil(i, w, errorPath)
    \/ \E i \in 1..Len(requests), m \in Messages : Reject(i, m)

Spec == Init /\ [][Next]_vars

(* A change of the mutation's state is always followed by a render. *)
FairSpec == Spec /\ WF_vars(Render)

---------------------------------------------------------------------------
(* Vocabulary of the properties *)

(* The step handles a submit event. *)
SubmitStep == submitCount' # submitCount

(* The step issues a login request. *)
IssueStep == Len(requests') > Len(requests)

(* Request i is answered in this step, successfully or with a rejection. *)
FulfilledNow(i) == requests[i].st = "pending" /\ requests'[i].st = "fulfilled"
RejectedNow(i) == requests[i].st = "pending" /\ requests'[i].st = "rejected"

(* The field values of the inputs that are blank or no address, and that   *)
(* are blank after trimming.                                               *)
BadEmails ==
    { <<>>,
      <<" ">>,
      <<"a", "@", "b", ".", "c">>,
      <<"a", "b", ".", "c", "o">> }
BlankPasswords == { <<>>, <<" ">> }
ValidFields == email \in Emails \ BadEmails /\ password \in Passwords \ BlankPasswords

---------------------------------------------------------------------------
(* C1: at most one login request is outstanding in every reachable state;  *)
(* a submit while a request is in flight issues none, also when it comes   *)
(* before the component has rendered the pending flag.                     *)
C1_AtMostOneOutstanding == Cardinality(InFlight) <= 1

(* C2: a submit with an email field that is blank or no address issues no  *)
(* request, navigates nowhere, notifies nothing, and sets an error on the  *)
(* email field.                                                            *)
C2_BadEmailBlocksSubmit ==
    [][(SubmitStep /\ email \in BadEmails) =>
          /\ UNCHANGED <<mutation, effects>>
          /\ errors'.email # Null]_vars

C2_Witness ==
    /\ submitCount = 1
    /\ email = <<"a", "@", "b", ".", "c">>
    /\ password = <<" ", "p", " ">>
    /\ errors = [email |-> Some(EmailInvalidMsg), password |-> Null]
    /\ requests = <<>>

(* C3: a submit with a password that is blank after trimming issues no     *)
(* request and sets an error on the password field, whatever the email.    *)
C3_BlankPasswordBlocksSubmit ==
    [][(SubmitStep /\ password \in BlankPasswords) =>
          /\ UNCHANGED mutation
          /\ errors'.password # Null]_vars

C3_Witness ==
    /\ submitCount = 1
    /\ password = <<" ">>
    /\ email = <<" ", "a", "@", "b", ".", "c", "o", " ">>
    /\ errors = [email |-> Null, password |-> Some(PasswordRequiredMsg)]
    /\ requests = <<>>

(* C4: with no returnUrl, the navigation made for a successful response    *)
(* whose user has current workspace w goes to exactly /workspace/w, and    *)
(* the response that reaches onSuccess makes that navigation.              *)
C4_DefaultWorkspaceRoute ==
    [][\A i \in 1..Len(requests) :
          (FulfilledNow(i) /\ returnUrl = Null) =>
              LET route == <<"/", "w", "o", "r", "k", "s", "p", "a", "c", "e", "/">>
                               \o requests'[i].data[1]
              IN  /\ navigations' \in {navigations, Append(navigations, route)}
                  /\ i = current => navigations' = Append(navigations, route)]_vars

C4_Witness ==
    /\ returnUrl = Null
    /\ Len(requests) = 1
    /\ requests[1].data = Some(<<"w", "1">>)
    /\ navigations = << <<"/", "w", "o", "r", "k", "s", "p", "a", "c", "e", "/", "w", "1">> >>

(* C5: with a returnUrl parameter, whatever its value (empty and malformed *)
(* ones included), a successful response navigates to the percent-decoded  *)
(* value of the parameter.                                                 *)
C5_ReturnUrlAlwaysNavigates ==
    [][\A i \in 1..Len(requests) :
          (FulfilledNow(i) /\ i = current /\ returnUrl # Null) =>
              navigations' =
                  Append(navigations, decodeURIComponent(returnUrl[1]).value)]_vars

(* C6: every rejected login request with message m raises exactly one      *)
(* notification, whose text is m; nothing is navigated to and the fields   *)
(* keep their values.                                                      *)
C6_RejectionNotifiesVerbatim ==
    [][\A i \in 1..Len(requests) :
          RejectedNow(i) =>
              /\ Len(toasts') = Len(toasts) + 1
              /\ toasts'[Len(toasts')].description = requests'[i].error[1]
              /\ UNCHANGED <<navigations, email, password>>]_vars

(* C7: a request is issued only by an accepted submission (valid fields,   *)
(* nothing in flight), one per submission, and each request has exactly    *)
(* one outcome handled: the success path or the failure path, not both.    *)
C7_OneRoundTripPerSubmission ==
    [][/\ IssueStep =>
            /\ SubmitStep
            /\ ValidFields
            /\ InFlight = {}
            /\ Len(requests') = Len(requests) + 1
       /\ \A i \in 1..Len(requests) :
            /\ requests'[i].succeeded + requests'[i].failed <= 1
            /\ (FulfilledNow(i) \/ RejectedNow(i)) =>
                   requests'[i].succeeded + requests'[i].failed = 1]_vars

(* C8: handling a rejection clears the mutation's pending state; the       *)
(* rendered busy flag does not stay set once no request is pending; and a  *)
(* submit of valid fields made with the flag cleared issues a new request. *)
C8_UsableAfterRejection ==
    /\ [][\A i \in 1..Len(requests) :
             (RejectedNow(i) /\ i = current) => status' = "error"]_vars
    /\ [][(SubmitStep /\ ValidFields /\ ~isPending) =>
             /\ Len(requests') = Len(requests) + 1
             /\ requests'[Len(requests')].st = "pending"
             /\ status' = "pending"]_vars
    /\ (status # "pending") ~> ~isPending

C8_Witness ==
    /\ Len(requests) = 2
    /\ requests[1].st = "rejected"
    /\ requests[1].failed = 1
    /\ Len(toasts) = 1
    /\ requests[2].st = "pending"
    /\ status = "pending"

(* C9: every navigation is the consequence of a login request, issued with *)
(* validated credentials, being answered successfully; none happens on a   *)
(* submit, on a rejection or while a request is pending, and the success   *)
(* path raises no notification.                                            *)
C9_NavigationOnlyOnSuccess ==
    [][/\ navigations' # navigations =>
            /\ \E i \in 1..Len(requests) :
                  /\ FulfilledNow(i)
                  /\ requests[i].email \in {Trim(e) : e \in Emails \ BadEmails}
                  /\ requests[i].password \in {Trim(p) : p \in Passwords \ BlankPasswords}
            /\ ~SubmitStep
            /\ InFlight' = {}
       /\ \A i \in 1..Len(requests) :
            /\ RejectedNow(i) => navigations' = navigations
            /\ FulfilledNow(i) => toasts' = toasts]_vars

============================================================================
